---- MODULE Spec2Model ----
(***************************************************************************)
(* A model of the aiida-chemshell plugin: the SplitTrajectory output       *)
(* parser, the trajectory splitting script, the CLF-ULTRA work chain, the  *)
(* input validation of ChemShellCalculation and generate_parameter_string. *)
(* Each component has its own specification over the shared variables.     *)
(***************************************************************************)
EXTENDS Integers, Sequences, FiniteSets, TLC

VARIABLES
    \* SplitTrajectoryParser.parse
    retrieved_temporary_folder, \* file name -> content of the retrieved folder
    parse_todo,                 \* files tmp_folder.iterdir() has yet to yield
    traj_folder,                \* FolderData: object name -> content
    parse_pc,                   \* "idle" | "iter" | "check" | "done"
    parse_exit,                 \* what parse returned (or raised)
    parse_outputs               \* output link -> node emitted with self.out

VARIABLES
    \* the script of SplitTrajectory.generate_script, run in a working folder
    path_xyz,        \* lines of the file the script opens as "path.xyz"
    path_force_xyz,  \* lines of the file the script opens as "path_force.xyz"
    path,            \* the script's variable path (f.readlines())
    force,           \* the script's variable force
    natms,           \* the script's variable natms
    i,               \* the script's variable i
    step,            \* the script's variable step
    j,               \* the script's loop variable j
    files,           \* files the script has written: name -> items written
    script_pc        \* "idle" | "read" | "while" | "for" | "done" | "IndexError"

VARIABLES
    \* CLFULTRAOptimisationWorkChain
    wc_inputs,    \* the work chain's inputs: name -> value
    wc_pc,        \* index into the outline of the next step to run
    wc_state,     \* "idle" | "running" | "finished" | "excepted"
    wc_awaiting,  \* context keys of the awaitables not yet resolved
    wc_trace,     \* the steps entered so far, in order
    calcs,        \* submitted calculations: context key -> job record
    ctx,          \* self.ctx: key -> value
    wc_outputs    \* outputs emitted with self.out: name -> value

VARIABLES
    \* generate_parameter_string(params)
    params,     \* the dictionary, as its (key, value) pairs in iteration order
    gp_idx,     \* position of the for loop in params
    s,          \* the function's variable s
    gp_pc,      \* "idle" | "for" | "done"
    gp_result   \* the string returned

VARIABLES
    \* creation of a ChemShellCalculation process and its input validation
    val_inputs,  \* the parameter dictionaries given: input name -> dictionary
    val_state,   \* "idle" | "new" | "rejected" | "validated" | "prepared"
    val_error    \* the exception raised by the validation, or NoError

VARIABLES
    \* a SplitTrajectory job: prepare_for_submission, upload, run, parse
    st_inputs,   \* self.inputs: path, force, filename, the code, the resources
    st_pc,       \* "idle" | "new" | "prepared" | "TypeError" | "uploaded"
                 \* | "ran" | "FileNotFoundError" | "parsed"
    calc_info,   \* the CalcInfo prepare_for_submission returned, or NoCalcInfo
    workdir,     \* the working folder of the job: file name -> content
    st_read,     \* what the script read as positions and as forces
    st_written,  \* the trajectory files the script wrote
    st_outputs   \* the parser's result: exit code and output folder

parseVars == <<retrieved_temporary_folder, parse_todo, traj_folder, parse_pc,
               parse_exit, parse_outputs>>
scriptVars == <<path_xyz, path_force_xyz, path, force, natms, i, step, j, files,
                script_pc>>

wcVars == <<wc_inputs, wc_pc, wc_state, wc_awaiting, wc_trace, calcs, ctx,
            wc_outputs>>

gpVars == <<params, gp_idx, s, gp_pc, gp_result>>
valVars == <<val_inputs, val_state, val_error>>
splitVars == <<st_inputs, st_pc, calc_info, workdir, st_read, st_written,
               st_outputs>>

vars == <<parseVars, scriptVars, wcVars, gpVars, valVars, splitVars>>

notParse == <<scriptVars, wcVars, gpVars, valVars, splitVars>>
notScript == <<parseVars, wcVars, gpVars, valVars, splitVars>>
notWc == <<parseVars, scriptVars, gpVars, valVars, splitVars>>
notGp == <<parseVars, scriptVars, wcVars, valVars, splitVars>>
notVal == <<parseVars, scriptVars, wcVars, gpVars, splitVars>>
notSplit == <<parseVars, scriptVars, wcVars, gpVars, valVars>>

(***************************************************************************)
(* Bounds of the model.                                                    *)
(***************************************************************************)
MaxFiles == 3
MaxAtoms == 2
MaxFrames == 3
MaxEnergy == 1
MaxParams == 2
MaxDictKeys == 2
ManySteps == 1001
MaxProcs == 2

\* The empty function (an empty dict, an empty folder).
EmptyMap == [x \in {} |-> 0]

\* f with key k bound to v, other keys kept (dict / folder insertion).
Put(f, k, v) == [x \in (DOMAIN f) \cup {k} |-> IF x = k THEN v ELSE f[x]]

\* seq[idx] with Python's zero-based index.
At(seq, idx) == seq[idx + 1]

(***************************************************************************)
(* The script returned by SplitTrajectory.generate_script                  *)
(***************************************************************************)

\* A line of an XYZ trajectory file. kind is "count" (the atom count, val its
\* number), "comment" (val the frame) or "atom" (species and val, which
\* stands for the three numbers that follow the species on that line).
Line(kind, species, val) == [kind |-> kind, species |-> species, val |-> val]

Species == {"H", "O"}

\* A trajectory file of F frames of n atoms, F*(n+2) lines: per frame the atom
\* count, a comment line and n atom lines. The numbers of the atom line at
\* index idx are the token <<tag, idx>>.
TrajectoryFile(tag, n, F, sp) ==
    [k \in 1 .. F * (n + 2) |->
        LET idx == k - 1
            r == idx % (n + 2)
        IN  IF r = 0 THEN Line("count", "", <<"int", n>>)
            ELSE IF r = 1 THEN Line("comment", "", <<"frame", idx \div (n + 2)>>)
            ELSE Line("atom", sp[r - 1], <<tag, idx>>)]

\* int(path[0])
IntOf(line) == line.val[2]

\* The decimal digits of n, most significant first.
RECURSIVE Digits(_)
Digits(n) == IF n < 10 THEN <<n>> ELSE Append(Digits(n \div 10), n % 10)

\* f"{n:0{w}d}": the digits of n, left-padded with zeros to at least w digits.
RECURSIVE ZeroPad(_, _)
ZeroPad(d, w) == IF Len(d) >= w THEN d ELSE ZeroPad(<<0>> \o d, w)

\* f"trajectory_{step:03d}.xyz"
TrajectoryFileName(stp) == <<"trajectory_", ZeroPad(Digits(stp), 3), ".xyz">>

\* What one f.write call adds to the open file.
Item(kind, species, p, f) == [kind |-> kind, species |-> species, p |-> p, f |-> f]
None == <<"none", 0>>

\* f.write(f"{natms:10d}")
CountItem(n) == Item("natms", "", <<"int", n>>, None)
\* f.write(f"\nProperties=\"species:S:1:pos:R:3:force:R:3\" Step={step}")
HeaderItem(stp) == Item("header", "", <<"Step", stp>>, None)
\* f.write(xyz_str.format(path_line[0], float(path_line[1..3]), float(force_line[1..3])))
RecordItem(path_line, force_line) ==
    Item("atom", path_line.species, path_line.val, force_line.val)

\* while i < len(path)
LoopCondition(idx, lines) == idx < Len(lines)

\* i += natms + 2
NextFrameMut(idx, n) == idx + n + 1
NextFrame(idx, n) == idx + n + 2

ScriptIdle ==
    /\ path_xyz = <<>> /\ path_force_xyz = <<>>
    /\ path = <<>> /\ force = <<>>
    /\ natms = 0 /\ i = 0 /\ step = 0 /\ j = 0
    /\ files = EmptyMap
    /\ script_pc = "idle"

\* The script starts in a folder that holds a position file of F frames and a
\* force file of Ff frames of n atoms.
ScriptInit ==
    /\ \E n \in 0 .. MaxAtoms, F \in 1 .. MaxFrames, Ff \in 1 .. MaxFrames :
          \E sp \in [1 .. n -> Species] :
             /\ path_xyz = TrajectoryFile("pos", n, F, sp)
             /\ path_force_xyz = TrajectoryFile("force", n, Ff, sp)
    /\ path = <<>> /\ force = <<>>
    /\ natms = 0 /\ i = 0 /\ step = 0 /\ j = 0
    /\ files = EmptyMap
    /\ script_pc = "read"

\* The two readlines, natms = int(path[0]), i = 2, step = 0.
ScriptRead ==
    /\ script_pc = "read"
    /\ path' = path_xyz
    /\ force' = path_force_xyz
    /\ natms' = IntOf(At(path_xyz, 0))
    /\ i' = 2
    /\ step' = 0
    /\ script_pc' = "while"
    /\ UNCHANGED <<path_xyz, path_force_xyz, j, files>>
    /\ UNCHANGED notScript

\* The loop test holds: the step's file is opened for writing (truncated), the
\* atom count and the header are written, and the for loop starts.
ScriptOpenFile ==
    /\ script_pc = "while"
    /\ LoopCondition(i, path)
    /\ files' = Put(files, TrajectoryFileName(step),
                     <<CountItem(natms), HeaderItem(step)>>)
    /\ j' = 0
    /\ script_pc' = "for"
    /\ UNCHANGED <<path_xyz, path_force_xyz, path, force, natms, i, step>>
    /\ UNCHANGED notScript

\* The loop test fails: the script ends.
ScriptEnd ==
    /\ script_pc = "while"
    /\ ~LoopCondition(i, path)
    /\ script_pc' = "done"
    /\ UNCHANGED <<path_xyz, path_force_xyz, path, force, natms, i, step, j, files>>
    /\ UNCHANGED notScript

\* One round of `for j in range(natms)`: the record of atom j is written.
ScriptWriteRecord ==
    /\ script_pc = "for"
    /\ j < natms
    /\ i + j < Len(path) /\ i + j < Len(force)
    /\ files' = [files EXCEPT ![TrajectoryFileName(step)] =
                    Append(@, RecordItem(At(path, i + j), At(force, i + j)))]
    /\ j' = j + 1
    /\ UNCHANGED <<path_xyz, path_force_xyz, path, force, natms, i, step, script_pc>>
    /\ UNCHANGED notScript

\* path[i + j] or force[i + j] past the end of the list: IndexError.
ScriptIndexError ==
    /\ script_pc = "for"
    /\ j < natms
    /\ ~(i + j < Len(path) /\ i + j < Len(force))
    /\ script_pc' = "IndexError"
    /\ UNCHANGED <<path_xyz, path_force_xyz, path, force, natms, i, step, j, files>>
    /\ UNCHANGED notScript

\* The for loop is over, the file is closed: i += natms + 2; step += 1.
ScriptNextFrame ==
    /\ script_pc = "for"
    /\ ~(j < natms)
    /\ i' = NextFrame(i, natms)
    /\ step' = step + 1
    /\ script_pc' = "while"
    /\ UNCHANGED <<path_xyz, path_force_xyz, path, force, natms, j, files>>
    /\ UNCHANGED notScript

ScriptNext ==
    \/ ScriptRead \/ ScriptOpenFile \/ ScriptEnd \/ ScriptWriteRecord
    \/ ScriptIndexError \/ ScriptNextFrame


(***************************************************************************)
(* SplitTrajectory.define and SplitTrajectoryParser.parse                  *)
(***************************************************************************)

\* Exit codes every CalcJob inherits through super().define(spec).
CalcJobExitCodes ==
    {"ERROR_UNSPECIFIED", "ERROR_LEGACY_FAILURE", "ERROR_INVALID_OUTPUT",
     "ERROR_MISSING_OUTPUT", "ERROR_NO_RETRIEVED_FOLDER",
     "ERROR_SCHEDULER_OUT_OF_MEMORY", "ERROR_SCHEDULER_OUT_OF_WALLTIME",
     "ERROR_SCHEDULER_INVALID_ACCOUNT", "ERROR_SCHEDULER_NODE_FAILURE",
     "STOPPED_BY_MONITOR"}

\* The exit codes SplitTrajectory.define itself declares with spec.exit_code:
\* it declares none.
SplitTrajectoryExitCodes == {}

\* self.exit_codes of the parser: the exit code namespace of SplitTrajectory.
exit_codes == CalcJobExitCodes \cup SplitTrajectoryExitCodes

\* self.exit_codes.<name>: attribute access on the namespace, which raises
\* AttributeError for a name that was never declared.
ExitCodeAttr(name) == IF name \in exit_codes THEN name ELSE "AttributeError"

\* Names and contents of the files a retrieved temporary folder may hold.
FileNames == {TrajectoryFileName(k) : k \in 0 .. (MaxFiles - 1)}
FileContents == {"xyzA", "xyzB"}

\* The folders handed to parse as retrieved_temporary_folder.
RetrievedFolders ==
    UNION {[S -> FileContents] : S \in SUBSET FileNames}

\* The object name parse stores a file under: file.name.
ObjectNameMut(file) == TrajectoryFileName(0)
ObjectName(file) == file

ParseIdle ==
    /\ retrieved_temporary_folder = EmptyMap
    /\ parse_todo = {}
    /\ traj_folder = EmptyMap
    /\ parse_pc = "idle"
    /\ parse_exit = "none"
    /\ parse_outputs = EmptyMap

\* parse is called: traj_folder = FolderData(...), tmp_folder.iterdir() opened.
ParseInit ==
    /\ retrieved_temporary_folder \in RetrievedFolders
    /\ parse_todo = DOMAIN retrieved_temporary_folder
    /\ traj_folder = EmptyMap
    /\ parse_pc = "iter"
    /\ parse_exit = "none"
    /\ parse_outputs = EmptyMap

\* One round of `for file in tmp_folder.iterdir()`, in the order the
\* directory listing happens to yield.
ParsePutObject ==
    /\ parse_pc = "iter"
    /\ parse_todo # {}
    /\ \E file \in parse_todo :
          /\ traj_folder' = Put(traj_folder, ObjectName(file),
                                retrieved_temporary_folder[file])
          /\ parse_todo' = parse_todo \ {file}
    /\ UNCHANGED <<retrieved_temporary_folder, parse_pc, parse_exit, parse_outputs>>
    /\ UNCHANGED notParse

\* The listing is exhausted: the loop ends.
ParseLoopEnd ==
    /\ parse_pc = "iter"
    /\ parse_todo = {}
    /\ parse_pc' = "check"
    /\ UNCHANGED <<retrieved_temporary_folder, parse_todo, traj_folder,
                   parse_exit, parse_outputs>>
    /\ UNCHANGED notParse

\* if len(traj_folder.list_object_names()) < 1: return the error exit code.
ParseNoFiles ==
    /\ parse_pc = "check"
    /\ Cardinality(DOMAIN traj_folder) < 1
    /\ parse_exit' = ExitCodeAttr("ERROR_NO_TRAJECTORY_FILES")
    /\ parse_pc' = "done"
    /\ UNCHANGED <<retrieved_temporary_folder, parse_todo, traj_folder, parse_outputs>>
    /\ UNCHANGED notParse

\* self.out("trajectory_folder", traj_folder); return ExitCode(0).
ParseEmit ==
    /\ parse_pc = "check"
    /\ ~(Cardinality(DOMAIN traj_folder) < 1)
    /\ parse_outputs' = Put(parse_outputs, "trajectory_folder", traj_folder)
    /\ parse_exit' = "ExitCode(0)"
    /\ parse_pc' = "done"
    /\ UNCHANGED <<retrieved_temporary_folder, parse_todo, traj_folder>>
    /\ UNCHANGED notParse

ParseNext == ParsePutObject \/ ParseLoopEnd \/ ParseNoFiles \/ ParseEmit


(***************************************************************************)
(* CLFULTRAOptimisationWorkChain                                           *)
(***************************************************************************)

\* spec.outline(...)
OutlineMut ==
    <<"optimise", "generate_xyz_files", "mlip_sp", "extract_final_structure",
      "calculate_energy_difference", "result">>
Outline ==
    <<"optimise", "generate_xyz_files", "extract_final_structure", "mlip_sp",
      "calculate_energy_difference", "result">>

\* The optional inputs of the work chain.
OptionalInputs == {"force_field_file", "qm_region"}

\* The value supplied for each input.
InputValue(name) == <<"input", name>>

\* Energies the external programs may report.
Energies == (0 - MaxEnergy) .. MaxEnergy

\* A submitted calculation job.
Job(process, inputs, state, outputs) ==
    [process |-> process, inputs |-> inputs, state |-> state, outputs |-> outputs]

\* A step of the outline runs when the work chain is running with no
\* unresolved awaitable, and is the step the outline index points at.
AtStep(name) ==
    /\ wc_state = "running"
    /\ wc_awaiting = {}
    /\ wc_pc <= Len(Outline)
    /\ Outline[wc_pc] = name

\* self.submit(process, **inputs); return ToContext(key=future)
Submit(key, process, inputs) ==
    /\ calcs' = Put(calcs, key, Job(process, inputs, "submitted", EmptyMap))
    /\ wc_awaiting' = wc_awaiting \cup {key}

\* The inputs dictionary optimise builds for ChemShellCalculation.
OptimiseInputs(inp) ==
    [k \in {"qm_parameters", "optimisation_parameters", "structure", "code",
            "metadata"} |->
        CASE k = "qm_parameters" ->
                [theory |-> "NWChem", method |-> "dft", functional |-> "B3LYP",
                 basis |-> "cc-pvtz"]
          [] k = "optimisation_parameters" -> [save_path |-> TRUE]
          [] k = "structure" -> inp["structure"]
          [] k = "code" -> inp["chemshell"]
          [] k = "metadata" ->
                [num_mpiprocs_per_machine |-> 8, num_machines |-> 1]]

\* The inputs dictionary generate_xyz_files builds for SplitTrajectory.
SplitInputs(inp, optimise) ==
    [k \in {"path", "force", "code", "metadata"} |->
        CASE k = "path" -> optimise.outputs["trajectory_path"]
          [] k = "force" -> optimise.outputs["trajectory_force"]
          [] k = "code" -> inp["chemshell"]
          [] k = "metadata" ->
                [num_mpiprocs_per_machine |-> 2, num_machines |-> 1]]

\* The inputs dictionary mlip_sp builds for the mlip.sp calculation.
MlipInputs(inp, structure) ==
    [k \in {"metadata", "code", "struct", "model", "device"} |->
        CASE k = "metadata" -> [num_machines |-> 1]
          [] k = "code" -> inp["janus"]
          [] k = "struct" -> structure
          [] k = "model" -> <<"model", "mace_mp">>
          [] k = "device" -> "cpu"]

\* Whether digit sequence a sorts before b (Python's string order).
RECURSIVE LexLess(_, _)
LexLess(a, b) ==
    IF a = <<>> THEN b # <<>>
    ELSE IF b = <<>> THEN FALSE
    ELSE IF Head(a) # Head(b) THEN Head(a) < Head(b)
    ELSE LexLess(Tail(a), Tail(b))

\* folder.list_object_names()[-1]: the last of the object names sorted by
\* name, the name no other name sorts after. The names differ only in their
\* digits, and '.' sorts before every digit, so a number that is a prefix of
\* another sorts first, as in LexLess.
LastObjectName(folder) ==
    CHOOSE name \in DOMAIN folder :
        \A other \in DOMAIN folder : ~LexLess(name[2], other[2])

\* The calcfunction extract_final_structure(folder).
ExtractFinalStructureOf(folder) ==
    LET structure_file == LastObjectName(folder)
    IN  <<"StructureData", folder[structure_file]>>

\* The calcfunction calculate_difference(qm_energy, ml_results).
calculate_differenceMut(qm_energy, ml_results) ==
    ml_results["info"]["mace_mp_energy"] - qm_energy
calculate_difference(qm_energy, ml_results) ==
    LET ml_energy == ml_results["info"]["mace_mp_energy"]
    IN  qm_energy - ml_energy

\* The number a sequence of decimal digits denotes.
RECURSIVE NumberOf(_)
NumberOf(d) ==
    IF d = <<>> THEN 0 ELSE 10 * NumberOf(SubSeq(d, 1, Len(d) - 1)) + d[Len(d)]

\* The trajectory folder a SplitTrajectory job outputs for N steps: the file
\* the script wrote for each step, whose content is that step's frame.
TrajectoryFolder(N) ==
    [name \in {TrajectoryFileName(k) : k \in 0 .. (N - 1)} |->
        <<"xyz", NumberOf(name[2])>>]

\* The numbers of optimisation steps a trajectory may have.
StepCounts == (1 .. MaxFrames) \cup {ManySteps}

\* The outputs a job of each process may finish with.
JobOutputs(process) ==
    CASE process = "ChemShellCalculation" ->
            {[k \in {"energy", "trajectory_path", "trajectory_force"} |->
                CASE k = "energy" -> e
                  [] k = "trajectory_path" -> <<"file", "path.xyz">>
                  [] k = "trajectory_force" -> <<"file", "path_force.xyz">>]
             : e \in Energies}
      [] process = "SplitTrajectory" ->
            {[k \in {"trajectory_folder"} |-> TrajectoryFolder(N)]
             : N \in StepCounts}
      [] process = "mlip.sp" ->
            {[k \in {"results_dict"} |-> [info |-> [mace_mp_energy |-> e]]]
             : e \in Energies}

WcIdle ==
    /\ wc_inputs = EmptyMap
    /\ wc_pc = 0
    /\ wc_state = "idle"
    /\ wc_awaiting = {}
    /\ wc_trace = <<>>
    /\ calcs = EmptyMap
    /\ ctx = EmptyMap
    /\ wc_outputs = EmptyMap

\* The work chain is launched with its required inputs and any of the
\* optional ones.
WcInit ==
    /\ \E opt \in SUBSET OptionalInputs :
          wc_inputs = [k \in {"structure", "chemshell", "janus"} \cup opt |->
                          InputValue(k)]
    /\ wc_pc = 1
    /\ wc_state = "running"
    /\ wc_awaiting = {}
    /\ wc_trace = <<>>
    /\ calcs = EmptyMap
    /\ ctx = EmptyMap
    /\ wc_outputs = EmptyMap

\* optimise: submit the geometry optimisation.
Optimise ==
    /\ AtStep("optimise")
    /\ wc_trace' = Append(wc_trace, "optimise")
    /\ Submit("optimise", "ChemShellCalculation", OptimiseInputs(wc_inputs))
    /\ wc_pc' = wc_pc + 1
    /\ UNCHANGED <<wc_inputs, wc_state, ctx, wc_outputs>>
    /\ UNCHANGED notWc

\* A submitted job terminates, with its outputs or failed without them; the
\* awaitable resolves and the job's node is bound to the context key.
JobTerminates ==
    /\ wc_state = "running"
    /\ \E key \in wc_awaiting :
          /\ calcs[key].state = "submitted"
          /\ \/ \E out \in JobOutputs(calcs[key].process) :
                   calcs' = [calcs EXCEPT ![key].state = "finished",
                                          ![key].outputs = out]
             \/ calcs' = [calcs EXCEPT ![key].state = "failed"]
          /\ wc_awaiting' = wc_awaiting \ {key}
          /\ ctx' = Put(ctx, key, <<"node", key>>)
    /\ UNCHANGED <<wc_inputs, wc_pc, wc_state, wc_trace, wc_outputs>>
    /\ UNCHANGED notWc

\* generate_xyz_files: submit SplitTrajectory on the optimisation's paths. An
\* output the optimisation did not produce raises, and the work chain excepts.
GenerateXyzFiles ==
    /\ AtStep("generate_xyz_files")
    /\ wc_trace' = Append(wc_trace, "generate_xyz_files")
    /\ IF /\ "optimise" \in DOMAIN ctx
          /\ {"trajectory_path", "trajectory_force"}
                \subseteq DOMAIN calcs["optimise"].outputs
       THEN /\ Submit("split_trajectory", "SplitTrajectory",
                      SplitInputs(wc_inputs, calcs["optimise"]))
            /\ wc_pc' = wc_pc + 1
            /\ UNCHANGED wc_state
       ELSE /\ wc_state' = "excepted"
            /\ UNCHANGED <<wc_pc, wc_awaiting, calcs>>
    /\ UNCHANGED <<wc_inputs, ctx, wc_outputs>>
    /\ UNCHANGED notWc

\* extract_final_structure: ctx.final_structure from the trajectory folder.
ExtractFinalStructure ==
    /\ AtStep("extract_final_structure")
    /\ wc_trace' = Append(wc_trace, "extract_final_structure")
    /\ IF /\ "split_trajectory" \in DOMAIN ctx
          /\ "trajectory_folder" \in DOMAIN calcs["split_trajectory"].outputs
       THEN /\ ctx' = Put(ctx, "final_structure",
                          ExtractFinalStructureOf(
                              calcs["split_trajectory"].outputs["trajectory_folder"]))
            /\ wc_pc' = wc_pc + 1
            /\ UNCHANGED wc_state
       ELSE /\ wc_state' = "excepted"
            /\ UNCHANGED <<wc_pc, ctx>>
    /\ UNCHANGED <<wc_inputs, wc_awaiting, calcs, wc_outputs>>
    /\ UNCHANGED notWc

\* mlip_sp: submit the single point on ctx.final_structure.
MlipSp ==
    /\ AtStep("mlip_sp")
    /\ wc_trace' = Append(wc_trace, "mlip_sp")
    /\ IF "final_structure" \in DOMAIN ctx
       THEN /\ Submit("mlip_sp", "mlip.sp",
                      MlipInputs(wc_inputs, ctx["final_structure"]))
            /\ wc_pc' = wc_pc + 1
            /\ UNCHANGED wc_state
       ELSE /\ wc_state' = "excepted"
            /\ UNCHANGED <<wc_pc, wc_awaiting, calcs>>
    /\ UNCHANGED <<wc_inputs, ctx, wc_outputs>>
    /\ UNCHANGED notWc

\* calculate_energy_difference: ctx.energy_difference.
CalculateEnergyDifference ==
    /\ AtStep("calculate_energy_difference")
    /\ wc_trace' = Append(wc_trace, "calculate_energy_difference")
    /\ IF /\ {"optimise", "mlip_sp"} \subseteq DOMAIN ctx
          /\ "energy" \in DOMAIN calcs["optimise"].outputs
          /\ "results_dict" \in DOMAIN calcs["mlip_sp"].outputs
       THEN /\ ctx' = Put(ctx, "energy_difference",
                          calculate_difference(
                              calcs["optimise"].outputs["energy"],
                              calcs["mlip_sp"].outputs["results_dict"]))
            /\ wc_pc' = wc_pc + 1
            /\ UNCHANGED wc_state
       ELSE /\ wc_state' = "excepted"
            /\ UNCHANGED <<wc_pc, ctx>>
    /\ UNCHANGED <<wc_inputs, wc_awaiting, calcs, wc_outputs>>
    /\ UNCHANGED notWc

\* result: the three outputs; the outline is over and the work chain finishes.
Result ==
    /\ AtStep("result")
    /\ wc_trace' = Append(wc_trace, "result")
    /\ IF /\ {"optimise", "split_trajectory", "energy_difference"} \subseteq DOMAIN ctx
          /\ "energy" \in DOMAIN calcs["optimise"].outputs
          /\ "trajectory_folder" \in DOMAIN calcs["split_trajectory"].outputs
       THEN /\ wc_outputs' =
                 [k \in {"final_qm_energy", "trajectory_files", "energy_difference"} |->
                    CASE k = "final_qm_energy" -> calcs["optimise"].outputs["energy"]
                      [] k = "trajectory_files" ->
                            calcs["split_trajectory"].outputs["trajectory_folder"]
                      [] k = "energy_difference" -> ctx["energy_difference"]]
            /\ wc_pc' = wc_pc + 1
            /\ wc_state' = "finished"
       ELSE /\ wc_state' = "excepted"
            /\ UNCHANGED <<wc_pc, wc_outputs>>
    /\ UNCHANGED <<wc_inputs, wc_awaiting, calcs, ctx>>
    /\ UNCHANGED notWc

WcNext ==
    \/ Optimise \/ JobTerminates \/ GenerateXyzFiles \/ ExtractFinalStructure
    \/ MlipSp \/ CalculateEnergyDifference \/ Result


(***************************************************************************)
(* utils.generate_parameter_string                                         *)
(***************************************************************************)

\* A Python string is the sequence of its characters.
KeyTheory == <<"t", "h", "e", "o", "r", "y">>
KeyBasis == <<"b", "a", "s", "i", "s">>
KeyMult == <<"m", "u", "l", "t">>
ParamKeys == {KeyTheory, KeyBasis, KeyMult}

\* A dictionary value: whether it is a str, and str(value).
Value(isstr, text) == [isstr |-> isstr, text |-> text]

\* Values a parameter dictionary may hold: the strings "", "dft" and "a, ",
\* the integer 1, True and the list [1, 2].
ParamValues ==
    {Value(TRUE, <<>>), Value(TRUE, <<"d", "f", "t">>),
     Value(TRUE, <<"a", ",", " ">>), Value(FALSE, <<"1">>),
     Value(FALSE, <<"T", "r", "u", "e">>),
     Value(FALSE, <<"[", "1", ",", " ", "2", "]">>)}

\* Whether no two pairs of the sequence have the same key.
DistinctKeys(ps) == \A a, b \in DOMAIN ps : a # b => ps[a][1] # ps[b][1]

\* The dictionaries of at most MaxParams keys.
ParamDicts ==
    UNION {{ps \in [1 .. n -> ParamKeys \X ParamValues] : DistinctKeys(ps)}
           : n \in 0 .. MaxParams}

\* str.rstrip(chars): the string without its trailing run of characters that
\* are in chars.
RECURSIVE Rstrip(_, _)
RstripMut(str, chars) == str
Rstrip(str, chars) ==
    IF str # <<>> /\ str[Len(str)] \in chars
    THEN Rstrip(SubSeq(str, 1, Len(str) - 1), chars)
    ELSE str

\* f"{key}='{params[key]}', " for a str value, f"{key}={params[key]}, " else.
FormatParam(key, value) ==
    IF value.isstr
    THEN key \o <<"=", "'">> \o value.text \o <<"'", ",", " ">>
    ELSE key \o <<"=">> \o value.text \o <<",", " ">>

GpIdle ==
    /\ params = <<>>
    /\ gp_idx = 0
    /\ s = <<>>
    /\ gp_pc = "idle"
    /\ gp_result = <<>>

\* The call: s = "", the for loop at the dictionary's first key.
GpInit ==
    /\ params \in ParamDicts
    /\ gp_idx = 1
    /\ s = <<>>
    /\ gp_pc = "for"
    /\ gp_result = <<>>

\* One round of `for key in params`: 'theory' is skipped, any other key adds
\* its entry to s.
GpForKey ==
    /\ gp_pc = "for"
    /\ gp_idx <= Len(params)
    /\ LET key == params[gp_idx][1]
           value == params[gp_idx][2]
       IN  s' = IF key = KeyTheory THEN s ELSE s \o FormatParam(key, value)
    /\ gp_idx' = gp_idx + 1
    /\ UNCHANGED <<params, gp_pc, gp_result>>
    /\ UNCHANGED notGp

\* return s.rstrip(", ")
GpReturn ==
    /\ gp_pc = "for"
    /\ gp_idx > Len(params)
    /\ gp_result' = Rstrip(s, {",", " "})
    /\ gp_pc' = "done"
    /\ UNCHANGED <<params, gp_idx, s>>
    /\ UNCHANGED notGp

GpNext == GpForKey \/ GpReturn

(***************************************************************************)
(* ChemShellCalculation: validation of the parameter dictionaries          *)
(***************************************************************************)

\* The member names of the enum ChemShellQMTheory.
ChemShellQMTheory ==
    {"NONE", "CASTEP", "CP2K", "DFTBP", "FHI_AIMS", "GAMESS_UK", "GAUSSIAN",
     "LSDALTON", "MNDO", "MOLPRO", "NWCHEM", "ORCA", "PYSCF", "TURBOMOLE"}

\* The member names of the enum ChemShellMMTheory.
ChemShellMMTheory == {"NONE", "DL_POLY", "GULP", "NAMD"}

\* A typed dictionary value.
TypedValue(type, text) == [type |-> type, text |-> text]

\* Theory names a caller may give, and str.upper() on them.
TheoryNames == {"NWChem", "PySCF", "DL_POLY", "INVALID"}
Upper(name) ==
    CASE name = "NWChem" -> "NWCHEM"
      [] name = "PySCF" -> "PYSCF"
      [] OTHER -> name

\* Whether a theory name names a member of the given enum.
IsTheory(name, enum) == Upper(name) \in enum

\* The keys each dictionary accepts.
AllowedKeys(input, theory) ==
    CASE input = "calculation_parameters" -> {"gradients", "hessian"}
      [] input = "optimisation_parameters" -> {"maxcycle", "save_path"}
      [] input = "mm_parameters" -> {"theory"}
      [] input = "qm_parameters" ->
            IF Upper(theory) = "NWCHEM"
            THEN {"theory", "method", "basis", "charge", "mult", "functional",
                  "scftype", "direct", "diis"}
            ELSE {"theory", "method", "basis", "charge", "mult", "functional",
                  "scftype"}

\* The type a key's value must have ("any": no requirement), as the error
\* message names it.
RequiredType(key) ==
    CASE key \in {"gradients", "hessian"} -> "Boolean"
      [] key = "mult" -> "float"
      [] OTHER -> "any"

\* Whether a value has the required type; an int passes for a float.
HasType(value, required) ==
    CASE required = "Boolean" -> value.type = "bool"
      [] required = "float" -> value.type \in {"float", "int"}
      [] OTHER -> TRUE

NoError == [exc |-> "none", names |-> {}, required |-> ""]
ValueError(names, required) ==
    [exc |-> "ValueError", names |-> names, required |-> required]

\* The keys a caller may put in each dictionary besides 'theory'.
CandidateKeys(input) ==
    CASE input = "calculation_parameters" -> {"gradients", "hessian", "gadents"}
      [] input = "optimisation_parameters" -> {"maxcycle", "save_path", "mincycle"}
      [] input = "mm_parameters" -> {}
      [] input = "qm_parameters" -> {"method", "charge", "mult", "chrg", "diis"}

CandidateValues ==
    {TypedValue("bool", "True"), TypedValue("str", "true"),
     TypedValue("float", "-1.0"), TypedValue("int", "5")}

\* The dictionaries a caller may give as `input`.
InputDicts(input) ==
    LET others ==
            UNION {[K -> CandidateValues] :
                   K \in {X \in SUBSET CandidateKeys(input) :
                            Cardinality(X) <= MaxDictKeys}}
        withTheory(d, name) ==
            [k \in DOMAIN d \cup {"theory"} |->
                IF k = "theory" THEN TypedValue("str", name) ELSE d[k]]
    IN  IF input \in {"qm_parameters", "mm_parameters"}
        THEN {withTheory(d, name) : d \in others, name \in TheoryNames}
        ELSE others

\* The theory name of a dictionary.
TheoryOf(d) == IF "theory" \in DOMAIN d THEN d["theory"].text ELSE "NONE"

\* The enum a dictionary's theory name is looked up in.
TheoryEnum(input) ==
    IF input = "qm_parameters" THEN ChemShellQMTheory ELSE ChemShellMMTheory

\* The theory name of a QM or MM dictionary must name a member of its enum.
CheckTheoryMut(input, d) == NoError
CheckTheory(input, d) ==
    IF /\ input \in {"qm_parameters", "mm_parameters"}
       /\ ~IsTheory(TheoryOf(d), TheoryEnum(input))
    THEN ValueError({"theory"}, "")
    ELSE NoError

\* Every key must be in the allow-list; the message lists the keys that are not.
CheckKeysMut(input, d) == NoError
CheckKeys(input, d) ==
    LET invalid == DOMAIN d \ AllowedKeys(input, TheoryOf(d))
    IN  IF invalid # {} THEN ValueError(invalid, "") ELSE NoError

\* Every value must have the type its key requires; the message names the key
\* and the type.
CheckTypesMut(input, d) == NoError
CheckTypes(input, d) ==
    LET mistyped == {k \in DOMAIN d : ~HasType(d[k], RequiredType(k))}
    IN  IF mistyped # {}
        THEN LET k == CHOOSE k \in mistyped : TRUE
             IN  ValueError({k}, RequiredType(k))
        ELSE NoError

\* The error validating dictionary d given as `input` raises, or NoError:
\* the theory name first, then the keys, then the types of the values.
ValidateDict(input, d) ==
    IF CheckTheory(input, d) # NoError THEN CheckTheory(input, d)
    ELSE IF CheckKeys(input, d) # NoError THEN CheckKeys(input, d)
    ELSE CheckTypes(input, d)

ValIdle ==
    /\ val_inputs = EmptyMap
    /\ val_state = "idle"
    /\ val_error = NoError

\* A ChemShellCalculation is created with one parameter dictionary.
ValInit ==
    /\ \E input \in {"qm_parameters", "mm_parameters", "calculation_parameters",
                     "optimisation_parameters"} :
          \E d \in InputDicts(input) : val_inputs = [k \in {input} |-> d]
    /\ val_state = "new"
    /\ val_error = NoError

\* The inputs are validated as the process is created: an invalid dictionary
\* raises and no process exists.
ValValidate ==
    /\ val_state = "new"
    /\ LET input == CHOOSE k \in DOMAIN val_inputs : TRUE
           err == ValidateDict(input, val_inputs[input])
       IN  /\ val_error' = err
           /\ val_state' = IF err = NoError THEN "validated" ELSE "rejected"
    /\ UNCHANGED val_inputs
    /\ UNCHANGED notVal

\* prepare_for_submission of the created process.
ValPrepare ==
    /\ val_state = "validated"
    /\ val_state' = "prepared"
    /\ UNCHANGED <<val_inputs, val_error>>
    /\ UNCHANGED notVal

ValNext == ValValidate \/ ValPrepare

(***************************************************************************)
(* SplitTrajectory: prepare_for_submission and the job it prepares         *)
(***************************************************************************)

\* The characters of 'chemsh.x'.
ChemshX == <<"c", "h", "e", "m", "s", "h", ".", "x">>

\* `sub in str` on Python strings.
Contains(sub, str) ==
    \E k \in 0 .. (Len(str) - Len(sub)) : SubSeq(str, k + 1, k + Len(sub)) = sub

\* Executable paths of the code: /chemsh.x, chemsh.x/py, /chemsh and py.
ExecutablePaths ==
    {<<"/">> \o ChemshX, ChemshX \o <<"/", "p", "y">>,
     <<"/", "c", "h", "e", "m", "s", "h">>, <<"p", "y">>}

\* The keys a resources dictionary may define.
ResourceKeys == {"num_machines", "num_mpiprocs_per_machine", "tot_num_mpiprocs"}

\* The resources dictionaries that define tot_num_mpiprocs or both
\* num_machines and num_mpiprocs_per_machine.
ResourceDicts ==
    UNION {[K -> 1 .. MaxProcs] :
           K \in {X \in SUBSET ResourceKeys :
                    \/ "tot_num_mpiprocs" \in X
                    \/ {"num_machines", "num_mpiprocs_per_machine"} \subseteq X}}

\* File names a SinglefileData input may have, and names for `filename`.
InputFileNames == {"path.xyz", "path_force.xyz", "traj.xyz"}
DirectoryNames == {"run_a", "run_b"}

\* A SinglefileData node: its uuid, its filename and its content.
SinglefileData(uuid, filename) ==
    [uuid |-> uuid, filename |-> filename, content |-> <<"content of", uuid>>]

\* dict.get(key) and dict.get(key, default): None stands for Python's None.
GetOr(d, key, default) == IF key \in DOMAIN d THEN d[key] ELSE default
Get(d, key) == GetOr(d, key, None)

\* The file names the generated script opens for the positions and forces.
ScriptPathFile == "path.xyz"
ScriptForceFile == "path_force.xyz"

NoCalcInfo == [cmdline_params |-> <<>>, local_copy_list |-> <<>>,
               retrieve_temporary_list |-> <<>>]

\* code_info.cmdline_params, or "TypeError" when n_machines * n_mpi_pm is
\* evaluated on a None.
CmdlineParams(executable, resources) ==
    IF Contains(ChemshX, executable)
    THEN <<"input.py">>
    ELSE LET n_machines == Get(resources, "num_machines")
             n_mpi_pm == Get(resources, "num_mpiprocs_per_machine")
         IN  IF n_machines = None \/ n_mpi_pm = None
             THEN "TypeError"
             ELSE LET tot_mpi == n_machines[2] * n_mpi_pm[2]
                  IN  <<"-np",
                        GetOr(resources, "tot_num_mpiprocs", <<"int", tot_mpi>>)[2],
                        "input.py">>

\* calc_info.local_copy_list: each input staged under its own filename.
LocalCopyList(inputs) ==
    <<<<inputs.path.uuid, inputs.path.filename, inputs.path.filename>>,
      <<inputs.force.uuid, inputs.force.filename, inputs.force.filename>>>>

\* The nodes of a job's inputs by uuid.
NodeOf(inputs, uuid) == IF inputs.path.uuid = uuid THEN inputs.path ELSE inputs.force

\* The working folder after the entries of a local copy list were copied into
\* it in order, a later entry overwriting an earlier one of the same name.
RECURSIVE Staged(_, _, _)
Staged(folder, inputs, copies) ==
    IF copies = <<>> THEN folder
    ELSE Staged(Put(folder, Head(copies)[3], NodeOf(inputs, Head(copies)[1]).content),
                inputs, Tail(copies))

\* The FolderData the parser creates: its label does not depend on any input.
FolderLabel(inputs) == "ExtXYZ Trajectory Folder"

\* What parse returns and emits for a job with these inputs whose run wrote
\* these trajectory files.
ParsedOutputs(inputs, written) ==
    IF Cardinality(written) < 1
    THEN [exit |-> ExitCodeAttr("ERROR_NO_TRAJECTORY_FILES")]
    ELSE [exit |-> "ExitCode(0)",
          trajectory_folder |-> [label |-> FolderLabel(inputs), names |-> written]]

SplitIdle ==
    /\ st_inputs = EmptyMap
    /\ st_pc = "idle"
    /\ calc_info = NoCalcInfo
    /\ workdir = EmptyMap
    /\ st_read = EmptyMap
    /\ st_written = {}
    /\ st_outputs = EmptyMap

\* A SplitTrajectory process is created with its inputs; the values of the
\* resources are held as <<"int", n>>.
SplitInit ==
    /\ \E pf \in InputFileNames, ff \in InputFileNames,
          dir \in DirectoryNames \cup {"absent"},
          exe \in ExecutablePaths, res \in ResourceDicts :
          st_inputs = [path |-> SinglefileData("path", pf),
                       force |-> SinglefileData("force", ff),
                       filename |-> dir,
                       executable |-> exe,
                       resources |-> [k \in DOMAIN res |-> <<"int", res[k]>>]]
    /\ st_pc = "new"
    /\ calc_info = NoCalcInfo
    /\ workdir = EmptyMap
    /\ st_read = EmptyMap
    /\ st_written = {}
    /\ st_outputs = EmptyMap

\* prepare_for_submission: input.py is written to the folder, then the command
\* line is built (which may raise), then the CalcInfo.
SplitPrepare ==
    /\ st_pc = "new"
    /\ workdir' = Put(workdir, "input.py", <<"script", ScriptPathFile, ScriptForceFile>>)
    /\ LET cmd == CmdlineParams(st_inputs.executable, st_inputs.resources)
       IN  IF cmd = "TypeError"
           THEN /\ st_pc' = "TypeError"
                /\ UNCHANGED calc_info
           ELSE /\ st_pc' = "prepared"
                /\ calc_info' = [cmdline_params |-> cmd,
                                 local_copy_list |-> LocalCopyList(st_inputs),
                                 retrieve_temporary_list |-> <<"trajectory*xyz">>]
    /\ UNCHANGED <<st_inputs, st_read, st_written, st_outputs>>
    /\ UNCHANGED notSplit

\* The engine copies the files of the local copy list into the working folder.
SplitUpload ==
    /\ st_pc = "prepared"
    /\ workdir' = Staged(workdir, st_inputs, calc_info.local_copy_list)
    /\ st_pc' = "uploaded"
    /\ UNCHANGED <<st_inputs, calc_info, st_read, st_written, st_outputs>>
    /\ UNCHANGED notSplit

\* The code runs input.py: the script opens its two files, which raises
\* FileNotFoundError when one is missing, and writes the trajectory files.
SplitRun ==
    /\ st_pc = "uploaded"
    /\ IF {ScriptPathFile, ScriptForceFile} \subseteq DOMAIN workdir
       THEN /\ st_read' = [positions |-> workdir[ScriptPathFile],
                           forces |-> workdir[ScriptForceFile]]
            /\ \E N \in 1 .. MaxFrames :
                  st_written' = {TrajectoryFileName(k) : k \in 0 .. (N - 1)}
            /\ st_pc' = "ran"
       ELSE /\ st_pc' = "FileNotFoundError"
            /\ UNCHANGED <<st_read, st_written>>
    /\ UNCHANGED <<st_inputs, calc_info, workdir, st_outputs>>
    /\ UNCHANGED notSplit

\* The files matching trajectory*xyz are retrieved and parsed: the folder of
\* the files is emitted as trajectory_folder, or the error exit code returned.
SplitParse ==
    /\ st_pc \in {"ran", "FileNotFoundError"}
    /\ st_outputs' = ParsedOutputs(st_inputs, st_written)
    /\ st_pc' = "parsed"
    /\ UNCHANGED <<st_inputs, calc_info, workdir, st_read, st_written>>
    /\ UNCHANGED notSplit

SplitNext == SplitPrepare \/ SplitUpload \/ SplitRun \/ SplitParse


(***************************************************************************)
(* The specifications                                                      *)
(***************************************************************************)
InitParse == ParseInit /\ ScriptIdle /\ WcIdle /\ GpIdle /\ ValIdle /\ SplitIdle
SpecParse == InitParse /\ [][ParseNext]_vars

InitWork == WcInit /\ ParseIdle /\ ScriptIdle /\ GpIdle /\ ValIdle /\ SplitIdle
SpecWork == InitWork /\ [][WcNext]_vars

InitScript == ScriptInit /\ ParseIdle /\ WcIdle /\ GpIdle /\ ValIdle /\ SplitIdle
SpecScript == InitScript /\ [][ScriptNext]_vars
\* The script is one sequential program: it takes its next step while it has one.
FairSpecScript == SpecScript /\ WF_vars(ScriptNext)

InitParam == GpInit /\ ParseIdle /\ ScriptIdle /\ WcIdle /\ ValIdle /\ SplitIdle
SpecParam == InitParam /\ [][GpNext]_vars

InitValid == ValInit /\ ParseIdle /\ ScriptIdle /\ WcIdle /\ GpIdle /\ SplitIdle
SpecValid == InitValid /\ [][ValNext]_vars

InitSplit == SplitInit /\ ParseIdle /\ ScriptIdle /\ WcIdle /\ GpIdle /\ ValIdle
SpecSplit == InitSplit /\ [][SplitNext]_vars

(***************************************************************************)
(* The claims                                                              *)
(***************************************************************************)

\* C1: when the retrieved temporary folder holds no file, parse returns the
\* exit code ERROR_NO_TRAJECTORY_FILES and emits no trajectory_folder output.
C1_NoFilesExitCode ==
    (parse_pc = "done" /\ DOMAIN retrieved_temporary_folder = {})
        => /\ parse_exit = "ERROR_NO_TRAJECTORY_FILES"
           /\ "trajectory_folder" \notin DOMAIN parse_outputs

\* C2: when the retrieved temporary folder holds at least one file, parse
\* returns exit code 0 and emits a trajectory_folder holding exactly one
\* object per retrieved file, under that file's name and with its content,
\* and no other object.
C2_FolderHoldsRetrievedFiles ==
    (parse_pc = "done" /\ DOMAIN retrieved_temporary_folder # {})
        => /\ parse_exit = "ExitCode(0)"
           /\ DOMAIN parse_outputs = {"trajectory_folder"}
           /\ DOMAIN parse_outputs["trajectory_folder"]
                 = DOMAIN retrieved_temporary_folder
           /\ \A file \in DOMAIN retrieved_temporary_folder :
                 parse_outputs["trajectory_folder"][file]
                    = retrieved_temporary_folder[file]

C2_Witness ==
    /\ parse_pc = "done"
    /\ Cardinality(DOMAIN retrieved_temporary_folder) >= 2
    /\ "trajectory_folder" \in DOMAIN parse_outputs

\* The atom count and the number of frames of the position file, and whether
\* the force file holds as many complete frames.
InputAtoms == IntOf(At(path_xyz, 0))
InputFrames == Len(path_xyz) \div (InputAtoms + 2)
SameFrames ==
    /\ script_pc # "idle"
    /\ Len(path_xyz) = InputFrames * (InputAtoms + 2)
    /\ Len(path_force_xyz) = Len(path_xyz)

\* The file the claim expects for step k: the atom count, the header with
\* Step=k, and per atom the species and position of position line
\* 2+k*(natms+2)+a with the force of the force line at the same index.
ExpectedFile(k) ==
    <<CountItem(InputAtoms), HeaderItem(k)>> \o
    [a \in 1 .. InputAtoms |->
        LET idx == 2 + k * (InputAtoms + 2) + (a - 1)
        IN  Item("atom", At(path_xyz, idx).species, At(path_xyz, idx).val,
                 At(path_force_xyz, idx).val)]

ExpectedFiles ==
    [name \in {TrajectoryFileName(k) : k \in 0 .. (InputFrames - 1)} |->
        ExpectedFile(CHOOSE k \in 0 .. (InputFrames - 1) :
                        TrajectoryFileName(k) = name)]

\* C3 as stated: on a position and a force file of F >= 1 complete frames of
\* natms atoms the script raises no error and ends having written exactly the
\* F expected files, for any natms.
C3_SplitsEveryFrame ==
    SameFrames => /\ script_pc # "IndexError"
                  /\ script_pc = "done" => files = ExpectedFiles

\* C3 as amended: for natms >= 1 the script raises no error, terminates, and
\* ends having written exactly the F expected files (with natms = 0 the last
\* frame is not written).
C3_SplitsEveryFrameOfAtoms ==
    /\ []((SameFrames /\ InputAtoms >= 1)
            => /\ script_pc # "IndexError"
               /\ script_pc = "done" => files = ExpectedFiles)
    /\ (SameFrames /\ InputAtoms >= 1) ~> (script_pc = "done")

C3_Witness ==
    /\ SameFrames
    /\ script_pc = "done"
    /\ InputAtoms >= 2
    /\ InputFrames >= 2
    /\ Cardinality(DOMAIN files) = InputFrames

\* Whether sequence a is a prefix of sequence b.
IsPrefix(a, b) == Len(a) <= Len(b) /\ a = SubSeq(b, 1, Len(a))

Terminated(key) == key \in DOMAIN calcs /\ calcs[key].state \in {"finished", "failed"}

\* C4: the steps run in the order optimise, generate_xyz_files,
\* extract_final_structure, mlip_sp, calculate_energy_difference, result; the
\* SplitTrajectory job is submitted only after the optimisation job has
\* terminated, the mlip.sp job only after the final structure was extracted,
\* and at most one submitted calculation is outstanding.
C4_StepsInOrder ==
    /\ IsPrefix(wc_trace,
                <<"optimise", "generate_xyz_files", "extract_final_structure",
                  "mlip_sp", "calculate_energy_difference", "result">>)
    /\ "split_trajectory" \in DOMAIN calcs => Terminated("optimise")
    /\ "mlip_sp" \in DOMAIN calcs => "final_structure" \in DOMAIN ctx
    /\ Cardinality({k \in DOMAIN calcs : calcs[k].state = "submitted"}) <= 1

C4_Witness ==
    /\ "mlip_sp" \in DOMAIN calcs
    /\ calcs["mlip_sp"].state = "submitted"
    /\ Terminated("split_trajectory")

\* C5: a qm_parameters or mm_parameters theory name that names no member of
\* ChemShellQMTheory / ChemShellMMTheory (names compared in upper case, as
\* 'NWChem' names NWCHEM) is rejected with a ValueError and no job is prepared.
C5_InvalidTheoryRejected ==
    \A input \in DOMAIN val_inputs \cap {"qm_parameters", "mm_parameters"} :
        (/\ val_state # "new"
         /\ Upper(val_inputs[input]["theory"].text) \notin TheoryEnum(input))
            => /\ val_state = "rejected"
               /\ val_error.exc = "ValueError"

C5_Witness ==
    /\ val_state = "rejected"
    /\ "qm_parameters" \in DOMAIN val_inputs
    /\ val_inputs["qm_parameters"]["theory"].text = "INVALID"

\* Whether the theory name of dictionary d, given as input, is valid.
TheoryValid(input, d) ==
    input \in {"qm_parameters", "mm_parameters"}
        => Upper(TheoryOf(d)) \in TheoryEnum(input)

\* C6: a calculation, optimisation or QM parameter dictionary with a key
\* outside its allow-list (for QM, that of the selected theory) is rejected
\* with a ValueError whose message names the invalid keys; a dictionary whose
\* keys are all allowed is not rejected over its keys.
C6_InvalidKeysRejected ==
    \A input \in DOMAIN val_inputs \cap {"calculation_parameters",
                     "optimisation_parameters", "qm_parameters"} :
        LET d == val_inputs[input]
            invalid == DOMAIN d \ AllowedKeys(input, TheoryOf(d))
        IN  (val_state # "new" /\ TheoryValid(input, d))
               => /\ invalid # {}
                     => /\ val_state = "rejected"
                        /\ val_error.exc = "ValueError"
                        /\ invalid \subseteq val_error.names
                  /\ (invalid = {} /\ val_state = "rejected")
                     => val_error.required # ""

C6_Witness ==
    /\ val_state = "rejected"
    /\ "calculation_parameters" \in DOMAIN val_inputs
    /\ "gadents" \in DOMAIN val_inputs["calculation_parameters"]

\* C7: with allowed keys only, a 'gradients' or 'hessian' that is not a
\* Boolean is rejected with a ValueError naming the key and the type Boolean,
\* and a QM 'mult' given as a string is rejected with a ValueError naming
\* mult and the type float.
C7_WrongTypeRejected ==
    \A input \in DOMAIN val_inputs \cap {"calculation_parameters", "qm_parameters"} :
        LET d == val_inputs[input]
            allowed == DOMAIN d \subseteq AllowedKeys(input, TheoryOf(d))
            notBool == {k \in DOMAIN d \cap {"gradients", "hessian"} :
                          d[k].type # "bool"}
            strMult == {k \in DOMAIN d \cap {"mult"} : d[k].type = "str"}
        IN  (val_state # "new" /\ TheoryValid(input, d) /\ allowed)
               => /\ notBool # {}
                     => /\ val_state = "rejected"
                        /\ val_error.exc = "ValueError"
                        /\ val_error.required = "Boolean"
                        /\ val_error.names # {}
                        /\ val_error.names \subseteq notBool
                  /\ (input = "qm_parameters" /\ strMult # {})
                     => /\ val_state = "rejected"
                        /\ val_error.exc = "ValueError"
                        /\ val_error.required = "float"
                        /\ val_error.names = {"mult"}

C7_Witness ==
    /\ val_state = "rejected"
    /\ "qm_parameters" \in DOMAIN val_inputs
    /\ LET d == val_inputs["qm_parameters"]
       IN  /\ DOMAIN d = {"theory", "mult", "charge"}
           /\ d["theory"].text = "NWChem"
           /\ d["mult"].type = "str"

\* C8: when the work chain finishes, final_qm_energy is the optimisation's
\* energy, trajectory_files is the SplitTrajectory job's trajectory_folder and
\* energy_difference is the optimisation's energy minus the mace_mp_energy of
\* the mlip.sp results.
C8_Outputs ==
    wc_state = "finished"
        => /\ DOMAIN wc_outputs
                 = {"final_qm_energy", "trajectory_files", "energy_difference"}
           /\ wc_outputs["final_qm_energy"] = calcs["optimise"].outputs["energy"]
           /\ wc_outputs["trajectory_files"]
                 = calcs["split_trajectory"].outputs["trajectory_folder"]
           /\ wc_outputs["energy_difference"]
                 = calcs["optimise"].outputs["energy"]
                   - calcs["mlip_sp"].outputs["results_dict"]["info"]["mace_mp_energy"]

C8_Witness ==
    /\ wc_state = "finished"
    /\ calcs["optimise"].outputs["energy"] = 1
    /\ calcs["mlip_sp"].outputs["results_dict"]["info"]["mace_mp_energy"] = 0
    /\ wc_outputs["energy_difference"] = 1

\* The entry 'key=value' the claim expects for a pair: a string value in
\* single quotes, any other value as it prints.
ExpectedEntry(pair) ==
    IF pair[2].isstr
    THEN pair[1] \o <<"=">> \o <<"'">> \o pair[2].text \o <<"'">>
    ELSE pair[1] \o <<"=">> \o pair[2].text

\* The pairs of ps whose key is not 'theory', in order.
RECURSIVE WithoutTheory(_)
WithoutTheory(ps) ==
    IF ps = <<>> THEN <<>>
    ELSE IF Head(ps)[1] = KeyTheory THEN WithoutTheory(Tail(ps))
    ELSE <<Head(ps)>> \o WithoutTheory(Tail(ps))

\* The entries of ps joined by ', ', with no leading or trailing separator.
RECURSIVE JoinEntries(_)
JoinEntries(ps) ==
    IF ps = <<>> THEN <<>>
    ELSE IF Len(ps) = 1 THEN ExpectedEntry(ps[1])
    ELSE ExpectedEntry(ps[1]) \o <<",", " ">> \o JoinEntries(Tail(ps))

\* C9: generate_parameter_string returns the entries 'key=value' of every key
\* but 'theory', in the dictionary's order, joined by ', ', string values in
\* single quotes and other values unquoted; the empty string when no key but
\* 'theory' is present.
C9_ParameterString ==
    gp_pc = "done" => gp_result = JoinEntries(WithoutTheory(params))

C9_Witness ==
    /\ gp_pc = "done"
    /\ Len(params) = 2
    /\ params[1][1] = KeyBasis
    /\ params[1][2] = Value(TRUE, <<"a", ",", " ">>)
    /\ params[2][1] = KeyTheory

\* C10: when force_field_file and qm_region are supplied, the optimisation the
\* work chain submits is a QM/MM calculation (QM and MM parameters) that
\* receives that force field file and that QM region.
C10_OptimiseIsQMMM ==
    (/\ OptionalInputs \subseteq DOMAIN wc_inputs
     /\ "optimise" \in DOMAIN calcs)
        => LET inputs == calcs["optimise"].inputs
           IN  /\ {"qm_parameters", "mm_parameters", "force_field_file",
                   "qmmm_parameters"} \subseteq DOMAIN inputs
               /\ inputs["force_field_file"] = wc_inputs["force_field_file"]
               /\ inputs["qmmm_parameters"]
                     = [qm_region |-> wc_inputs["qm_region"]]

\* C12: for a trajectory folder of N >= 1 steps, files trajectory_000 ..
\* trajectory_(N-1), the structure extract_final_structure returns is parsed
\* from the file of the highest step index N-1.
C12_FinalStructureIsLastStep ==
    "final_structure" \in DOMAIN ctx
        => LET folder == calcs["split_trajectory"].outputs["trajectory_folder"]
               N == Cardinality(DOMAIN folder)
           IN  ctx["final_structure"]
                  = <<"StructureData", folder[TrajectoryFileName(N - 1)]>>

\* C11: when the optional 'filename' input is supplied it names the directory
\* of output files: a run that differs only in 'filename' produces a
\* differently named trajectory_folder.
C11_FilenameNamesOutput ==
    (/\ st_pc = "parsed"
     /\ st_inputs.filename # "absent"
     /\ "trajectory_folder" \in DOMAIN st_outputs)
        => \A other \in DirectoryNames \ {st_inputs.filename} :
              ParsedOutputs([st_inputs EXCEPT !.filename = other],
                            st_written).trajectory_folder
                 # st_outputs.trajectory_folder

\* The command line C13 states for a code and a resources dictionary.
StatedCmdline(executable, resources) ==
    IF Contains(ChemshX, executable)
    THEN <<"input.py">>
    ELSE <<"-np",
           IF "tot_num_mpiprocs" \in DOMAIN resources
           THEN resources["tot_num_mpiprocs"][2]
           ELSE resources["num_machines"][2]
                   * resources["num_mpiprocs_per_machine"][2],
           "input.py">>

\* C13: for every resources dictionary that defines tot_num_mpiprocs or both
\* num_machines and num_mpiprocs_per_machine, prepare_for_submission returns
\* a CalcInfo whose command line is ['input.py'] for a chemsh.x executable
\* and ['-np', n, 'input.py'] otherwise, n being tot_num_mpiprocs when
\* defined and num_machines * num_mpiprocs_per_machine otherwise.
C13_CommandLine ==
    st_pc \notin {"idle", "new"}
        => /\ st_pc # "TypeError"
           /\ calc_info # NoCalcInfo
           /\ calc_info.cmdline_params
                 = StatedCmdline(st_inputs.executable, st_inputs.resources)

\* C14: whatever the filenames of the 'path' and 'force' inputs, the two
\* files the script opens are in the working folder and are the staged
\* inputs: the script reads 'path' as positions and 'force' as forces.
C14_ScriptReadsStagedInputs ==
    st_pc \in {"uploaded", "ran", "FileNotFoundError", "parsed"}
        => /\ {ScriptPathFile, ScriptForceFile} \subseteq DOMAIN workdir
           /\ workdir[ScriptPathFile] = st_inputs.path.content
           /\ workdir[ScriptForceFile] = st_inputs.force.content
           /\ st_pc \in {"ran", "parsed"}
                 => st_read = [positions |-> st_inputs.path.content,
                               forces |-> st_inputs.force.content]

====
